---------------------------- MODULE Spec2Model ----------------------------
(***************************************************************************)
(* RemoteStatusIndicator (vs/workbench/contrib/remote/browser/             *)
(* remoteIndicator.ts): the connection state machine, the cached           *)
(* aggregation of the two indicator menus, the group-key validator, the    *)
(* quick-pick item builder and the status-bar entry.                       *)
(*                                                                         *)
(* Strings are TLA+ strings; SubSeq(s, i, i) is the i-th character.        *)
(* An optional value (T | undefined) is a sequence of length <= 1:         *)
(* <<>> is undefined, <<v>> is the value v.                                *)
(***************************************************************************)
EXTENDS Integers, Sequences, FiniteSets

VARIABLES
    remoteAuthority,            \* this.remoteAuthority ("" when none), fixed at construction
    extensionGalleryEnabled,    \* environment: what extensionGalleryService.isEnabled() returns
    virtualWorkspaceLocation,   \* this.virtualWorkspaceLocation (optional)
    connectionState,            \* this.connectionState
    connectionStateContextKey,  \* value held by the context key 'remoteConnectionState'
    extensionsPc,               \* position of updateWhenInstalledExtensionsRegistered
    resolveCalls,               \* number of resolveAuthority calls issued so far
    remoteIndicatorMenu,        \* environment: groups the current menu returns from getActions()
    legacyIndicatorMenu,        \* environment: groups the legacy menu returns from getActions()
    remoteMenuActionsGroups,    \* this.remoteMenuActionsGroups (optional: the cache)
    loggedInvalidGroupNames,    \* this.loggedInvalidGroupNames (the keys set to true)
    logWarnings,                \* logService.warn calls so far: the group names, in order
    remoteStatusEntry,          \* this.remoteStatusEntry (optional: the properties shown)
    quickPick,                  \* the visible quick pick's items (optional)
    pending,                    \* listeners still to run for the menu event being delivered
    lastEvent,                  \* history: the most recently delivered connection/resolution event
    settledAfterGain,           \* history: the resolution settled right after a ConnectionGain
    lastOp,                     \* history: the handler that ran last
    lastGet,                    \* history: the direct getRemoteMenuActions call just made (optional)
    servedGroups,               \* history: what the last getRemoteMenuActions(false) call since
                                \* the last menu change returned (optional)
    unreadChanges,              \* history: menu changes handled since the menus were last read
    srcReads,                   \* history: getActions() queries of the current menu in the last handler
    renders,                    \* history: updateRemoteStatusIndicator runs in the last handler
    publishes,                  \* history: context key set() calls in the last handler
    groupArg,                   \* validator harness: the group name under test
    argTokens,                  \* validator harness: number of tokens groupArg is made of
    validResults,               \* validator harness: the results validatedGroup(groupArg) has returned
    workspaceRead               \* history: what getWorkspace() returned when last called (optional)

vars == << remoteAuthority, extensionGalleryEnabled, virtualWorkspaceLocation, connectionState,
           connectionStateContextKey, extensionsPc, resolveCalls, remoteIndicatorMenu,
           legacyIndicatorMenu, remoteMenuActionsGroups, loggedInvalidGroupNames, logWarnings,
           remoteStatusEntry, quickPick, pending, lastEvent, settledAfterGain, lastOp, lastGet,
           servedGroups, unreadChanges, srcReads, renders, publishes, groupArg, argTokens, validResults,
           workspaceRead >>

(***************************************************************************)
(* Bounds of the model.                                                    *)
(***************************************************************************)
\* Longest content of one menu (number of groups getActions() returns).
MaxGroups == 2
\* Longest group name of the validator harness, in tokens.
MaxTokens == 6

(***************************************************************************)
(* Characters and the regular expression of validatedGroup.                *)
(***************************************************************************)
Ch(s, i) == SubSeq(s, i, i)

Digits == {"0", "1", "2", "3", "4", "5", "6", "7", "8", "9"}
LowerLetters == {"a", "b", "c", "d", "e", "f", "g", "h", "i", "j", "k", "l", "m",
                 "n", "o", "p", "q", "r", "s", "t", "u", "v", "w", "x", "y", "z"}
\* [a-z0-9+.-]
NameChars == LowerLetters \cup Digits \cup {"+", ".", "-"}
\* What `.` does not match without the s flag: \n, \r, U+2028, U+2029 (the last
\* two are never part of a modelled name).
LineTerminators == {"\n", "\r"}

\* A regular expression element maps the set P of positions reached so far
\* (number of characters consumed) to the positions reached after it.
ReLit(s, P, w) == { p + Len(w) : p \in { q \in P : q + Len(w) <= Len(s)
                                                  /\ SubSeq(s, q + 1, q + Len(w)) = w } }
ReAlt2(s, P, w1, w2) == ReLit(s, P, w1) \cup ReLit(s, P, w2)
ReClass(s, P, C) == { p + 1 : p \in { q \in P : q < Len(s) /\ Ch(s, q + 1) \in C } }
ReStarClass(s, P, C) == { q \in 0..Len(s) : \E p \in P : p <= q
                                                /\ \A i \in (p + 1)..q : Ch(s, i) \in C }
ReStarDot(s, P) == { q \in 0..Len(s) : \E p \in P : p <= q
                                            /\ \A i \in (p + 1)..q : Ch(s, i) \notin LineTerminators }
ReEnd(s, P) == Len(s) \in P

\* Mutation of GroupRegExpTest: \d+ in place of \d\d.
GroupRegExpTest_digits(s) ==
    LET p1 == ReAlt2(s, {0}, "remote", "virtualfs")
        p2 == ReLit(s, p1, "_")
        p3 == ReClass(s, p2, Digits)
        p4 == ReStarClass(s, p3, Digits)
        p5 == ReLit(s, p4, "_")
        p6 == ReClass(s, p5, LowerLetters)
        p7 == ReStarClass(s, p6, NameChars)
        p8 == ReLit(s, p7, "_")
        p9 == ReStarDot(s, p8)
    IN  ReEnd(s, p9)

\* Mutation of GroupRegExpTest: (.+) in place of (.*).
GroupRegExpTest_tagRequired(s) ==
    LET p1 == ReAlt2(s, {0}, "remote", "virtualfs")
        p2 == ReLit(s, p1, "_")
        p3 == ReClass(s, p2, Digits)
        p4 == ReClass(s, p3, Digits)
        p5 == ReLit(s, p4, "_")
        p6 == ReClass(s, p5, LowerLetters)
        p7 == ReStarClass(s, p6, NameChars)
        p8 == ReLit(s, p7, "_")
        p9 == { q \in ReStarDot(s, p8) : \A p \in p8 : q > p }
    IN  ReEnd(s, p9)

\* group.match(/^(remote|virtualfs)_(\d\d)_(([a-z][a-z0-9+.-]*)_(.*))$/) is not null
GroupRegExpTest(s) ==
    LET p1 == ReAlt2(s, {0}, "remote", "virtualfs")
        p2 == ReLit(s, p1, "_")
        p3 == ReClass(s, p2, Digits)
        p4 == ReClass(s, p3, Digits)
        p5 == ReLit(s, p4, "_")
        p6 == ReClass(s, p5, LowerLetters)
        p7 == ReStarClass(s, p6, NameChars)
        p8 == ReLit(s, p7, "_")
        p9 == ReStarDot(s, p8)
    IN  ReEnd(s, p9)

(***************************************************************************)
(* Constants of the class.                                                 *)
(***************************************************************************)
REMOTE_ACTIONS_COMMAND_ID == "workbench.action.remote.showMenu"
CONNECT_REMOTE_COMMAND_ID == "workbench.action.remote.connect"
CLOSE_REMOTE_COMMAND_ID == "workbench.action.remote.close"
INSTALL_REMOTE_EXTENSIONS_ID == "workbench.action.remote.extensions"
ReloadWindowActionID == "workbench.action.reloadWindow"
isWeb == FALSE
SHOW_CLOSE_REMOTE_COMMAND_ID == ~isWeb
REMOTE_STATUS_LABEL_MAX_LENGTH == 40

\* Mutation of windowIndicator: no indicator is supplied.
windowIndicator_absent == << >>

\* this.windowIndicator: a field initialised to this object and never assigned again.
windowIndicator ==
    << [label |-> "$(remote) k0s: boring_wozniak",
        tooltip |-> "Running in boring_wozniak",
        command |-> REMOTE_ACTIONS_COMMAND_ID] >>

\* truncate(value, maxLength) of vs/base/common/strings, as called at lines 359-411.
truncate(value, maxLength) ==
    IF Len(value) <= maxLength THEN value ELSE SubSeq(value, 1, maxLength) \o "..."

\* getRemoteName(authority) of vs/platform/remote/common/remoteHosts, as called at line 461:
\* the part of the authority before its first '+'.
getRemoteName(authority) ==
    LET plus == { i \in 1..Len(authority) : Ch(authority, i) = "+" }
    IN  IF plus = {} THEN authority
        ELSE SubSeq(authority, 1, (CHOOSE i \in plus : \A j \in plus : i <= j) - 1)

(***************************************************************************)
(* Menu content. An action group is [key, actions]; `tier` records which   *)
(* menu supplied the group (the code's tuple does not carry it).           *)
(***************************************************************************)
MenuItem(id, category) == [id |-> id, title |-> id, category |-> category, isMenuItem |-> TRUE]
SubmenuItem(id) == [id |-> id, title |-> id, category |-> "", isMenuItem |-> FALSE]
ActionGroup(key, actions, tier) == [key |-> key, actions |-> actions, tier |-> tier]

\* Groups the current menu (MenuId.StatusBarRemoteIndicatorMenu) may hold.
CurrentCatalog ==
    { ActionGroup("remote_01_ssh_a", << MenuItem("ssh.a", "Docker") >>, "current"),
      ActionGroup("virtualfs_00_git_b", << MenuItem("git.b", ""), SubmenuItem("git.sub") >>, "current"),
      ActionGroup("foo_00_bar_baz", << MenuItem("foo.x", "Docker") >>, "current") }
\* Groups the legacy menu (MenuId.StatusBarWindowIndicatorMenu) may hold.
LegacyCatalog ==
    { ActionGroup("remote_00_ssh_c", << MenuItem("ssh.c", "Docker") >>, "legacy"),
      ActionGroup("foo_00_bar_baz", << MenuItem("foo.l", "") >>, "legacy") }

RECURSIVE SeqsUpTo(_, _)
\* The sequences of at most n distinct elements of S.
SeqsUpTo(S, n) ==
    IF n = 0 THEN { << >> }
    ELSE LET shorter == SeqsUpTo(S, n - 1)
         IN  shorter \cup { Append(q, x) : q \in { r \in shorter : Len(r) = n - 1 },
                                            x \in S }

Distinct(q) == \A i, j \in 1..Len(q) : i # j => q[i] # q[j]
MenuContents(catalog) == { q \in SeqsUpTo(catalog, MaxGroups) : Distinct(q) }

\* Configurations: environmentService.remoteAuthority and the workspace's virtual location.
RemoteAuthorities == { "", "ssh+myhost" }
WorkspaceLocations == { << >>, << [scheme |-> "git", authority |-> "hub"] >> }
\* getVirtualWorkspaceLocation(workspaceContextService.getWorkspace())
getVirtualWorkspaceLocation(workspace) == workspace

(***************************************************************************)
(* The object's mutable fields as a record, so that methods compose.       *)
(* reads, renders and publishes count what the running handler did.        *)
(***************************************************************************)
This ==
    [connectionState |-> connectionState,
     contextKey |-> connectionStateContextKey,
     virtualWorkspaceLocation |-> virtualWorkspaceLocation,
     groups |-> remoteMenuActionsGroups,
     logged |-> loggedInvalidGroupNames,
     warnings |-> logWarnings,
     entry |-> remoteStatusEntry,
     reads |-> 0, renders |-> 0, publishes |-> 0]

\* Mutation of validatedGroup: the warning is not remembered.
validatedGroup_forgets(o, group) ==
    IF ~GroupRegExpTest(group)
    THEN [ok |-> FALSE, o |-> [o EXCEPT !.warnings = Append(@, group)]]
    ELSE [ok |-> TRUE, o |-> o]

\* validatedGroup(group): the result and the object after the call.
validatedGroup(o, group) ==
    IF ~GroupRegExpTest(group)
    THEN [ok |-> FALSE,
          o |-> IF group \notin o.logged
                THEN [o EXCEPT !.logged = @ \cup {group}, !.warnings = Append(@, group)]
                ELSE o]
    ELSE [ok |-> TRUE, o |-> o]

\* One step of Array.prototype.filter: the element is kept when the callback
\* returned true; rest is the outcome for the elements after it.
filterKeep(ok, group, rest) ==
    [kept |-> IF ok THEN << group >> \o rest.kept ELSE rest.kept, o |-> rest.o]

RECURSIVE FilterValidated(_, _)
filterFrom(v, groups) == filterKeep(v.ok, Head(groups), FilterValidated(v.o, Tail(groups)))

\* remoteIndicatorMenu.getActions().filter(a => this.validatedGroup(a[0])):
\* the groups kept, and the object after the calls (made in order).
FilterValidated(o, groups) ==
    IF groups = << >> THEN [kept |-> << >>, o |-> o]
    ELSE filterFrom(validatedGroup(o, Head(groups).key), groups)

\* The assignment of line 348, f being the outcome of the filter: the object
\* whose cache is the filtered current groups followed by the legacy groups.
storeGroups(f) ==
    [f.o EXCEPT !.groups = << f.kept \o legacyIndicatorMenu >>, !.reads = @ + 1]

\* Mutation of getRemoteMenuActions: the current menu's groups are not filtered.
getRemoteMenuActions_noFilter(o, doNotUseCache) ==
    IF o.groups = << >> \/ doNotUseCache
    THEN storeGroups([kept |-> remoteIndicatorMenu, o |-> o])
    ELSE o

\* getRemoteMenuActions(doNotUseCache): the object after the call; the value
\* returned is its cache, o.groups[1].
getRemoteMenuActions(o, doNotUseCache) ==
    IF o.groups = << >> \/ doNotUseCache
    THEN storeGroups(FilterValidated(o, remoteIndicatorMenu))
    ELSE o

\* The entry added or updated at lines 433-448, g being the object after the
\* call (if any) of getRemoteMenuActions at line 428.
setEntry(g, text, tooltip, command, showProgress) ==
    [g EXCEPT !.entry = << [text |-> text, tooltip |-> tooltip, command |-> command,
                            showProgress |-> showProgress] >>]

\* renderRemoteStatusIndicator(text, tooltip, command, showProgress) without a command.
renderWithoutCommand(g, text, tooltip, showProgress) ==
    setEntry(g, text, tooltip,
             IF Len(g.groups[1]) > 0 THEN << REMOTE_ACTIONS_COMMAND_ID >> ELSE << >>,
             showProgress)

\* renderRemoteStatusIndicator(text, tooltip, command, showProgress); command is optional.
renderRemoteStatusIndicator(o, text, tooltip, command, showProgress) ==
    IF command = << >>
    THEN renderWithoutCommand(getRemoteMenuActions(o, FALSE), text, tooltip, showProgress)
    ELSE setEntry(o, text, tooltip, command, showProgress)

\* labelService.getHostLabel(scheme, authority): no formatter is registered.
getHostLabel(scheme, authority) == ""
\* labelService.getHostTooltip(scheme, authority)
getHostTooltip(scheme, authority) == ""

\* Lines 356-363: the indicator supplied from outside.
showWindowIndicator(o, remoteIndicator) ==
    IF remoteAuthority # ""
    THEN setEntry(o, truncate(remoteIndicator.label, REMOTE_STATUS_LABEL_MAX_LENGTH),
                  remoteIndicator.tooltip, << remoteIndicator.command >>, FALSE)
    ELSE setEntry(o, "$(remote)", remoteIndicator.tooltip, << remoteIndicator.command >>, FALSE)

\* Lines 366-390: the remote window, hostLabel being the label of the authority.
showConnectionState(o, hostLabel) ==
    CASE o.connectionState = "initializing" ->
            renderRemoteStatusIndicator(o, "Opening Remote...", "Opening Remote...", << >>, TRUE)
      [] o.connectionState = "reconnecting" ->
            renderRemoteStatusIndicator(o,
                "Reconnecting to " \o truncate(hostLabel, REMOTE_STATUS_LABEL_MAX_LENGTH) \o "...",
                "", << >>, TRUE)
      [] o.connectionState = "disconnected" ->
            renderRemoteStatusIndicator(o,
                "$(alert) Disconnected from "
                    \o truncate(hostLabel, REMOTE_STATUS_LABEL_MAX_LENGTH),
                "", << >>, FALSE)
      [] OTHER ->
            renderRemoteStatusIndicator(o,
                "$(remote) " \o truncate(hostLabel, REMOTE_STATUS_LABEL_MAX_LENGTH),
                IF getHostTooltip("vscode-remote", remoteAuthority) # ""
                THEN getHostTooltip("vscode-remote", remoteAuthority)
                ELSE "Editing on " \o hostLabel,
                << >>, FALSE)

\* Lines 392-414: the virtual workspace that has a label.
showVirtualWorkspace(o, workspaceLabel) ==
    renderRemoteStatusIndicator(o,
        "$(remote) " \o truncate(workspaceLabel, REMOTE_STATUS_LABEL_MAX_LENGTH),
        "Editing on " \o workspaceLabel, << >>, FALSE)

\* Lines 416-423, g being the object after getRemoteMenuActions(): the menu is
\* offered when it has groups, the entry is disposed otherwise.
offerMenu(g) ==
    IF Len(g.groups[1]) > 0
    THEN renderRemoteStatusIndicator(g, "$(remote)", "Open a Remote Window", << >>, FALSE)
    ELSE [g EXCEPT !.entry = << >>]

\* Mutation of decideIndicator: the connection state of a remote window is
\* shown before the indicator supplied from outside is looked at.
decideIndicator_stateFirst(o) ==
    IF remoteAuthority # "" /\ ~isWeb
    THEN showConnectionState(o, remoteAuthority)
    ELSE IF windowIndicator # << >>
    THEN showWindowIndicator(o, windowIndicator[1])
    ELSE offerMenu(getRemoteMenuActions(o, FALSE))

\* The body of updateRemoteStatusIndicator(): the first case that applies.
decideIndicator(o) ==
    IF windowIndicator # << >>
    THEN showWindowIndicator(o, windowIndicator[1])
    ELSE IF remoteAuthority # "" /\ ~isWeb
    THEN showConnectionState(o,
             IF getHostLabel("vscode-remote", remoteAuthority) # ""
             THEN getHostLabel("vscode-remote", remoteAuthority) ELSE remoteAuthority)
    ELSE IF o.virtualWorkspaceLocation # << >>
            /\ getHostLabel(o.virtualWorkspaceLocation[1].scheme,
                            o.virtualWorkspaceLocation[1].authority) # ""
    THEN showVirtualWorkspace(o, getHostLabel(o.virtualWorkspaceLocation[1].scheme,
                                              o.virtualWorkspaceLocation[1].authority))
    ELSE offerMenu(getRemoteMenuActions(o, FALSE))

\* updateRemoteStatusIndicator()
updateRemoteStatusIndicator(o) == decideIndicator([o EXCEPT !.renders = @ + 1])

\* The value the context key is set to for a connection state (lines 324-329).
contextKeyValue(state) == IF state = "reconnecting" THEN "disconnected" ELSE state

\* Mutation of setState: the context key is set to the state as it is.
setState_rawKey(o, newState) ==
    IF o.connectionState # newState
    THEN updateRemoteStatusIndicator(
             [o EXCEPT !.connectionState = newState, !.contextKey = newState,
                       !.publishes = @ + 1])
    ELSE o

\* Mutation of setState: a state other than 'initializing' is kept.
setState_onlyFromInitializing(o, newState) ==
    IF o.connectionState = "initializing"
    THEN updateRemoteStatusIndicator(
             [o EXCEPT !.connectionState = newState, !.contextKey = contextKeyValue(newState),
                       !.publishes = @ + 1])
    ELSE o

\* Mutation of setState: the new state is not compared with the current one.
setState_unguarded(o, newState) ==
    updateRemoteStatusIndicator(
        [o EXCEPT !.connectionState = newState, !.contextKey = contextKeyValue(newState),
                  !.publishes = @ + 1])

\* setState(newState)
setState(o, newState) ==
    IF o.connectionState # newState
    THEN updateRemoteStatusIndicator(
             [o EXCEPT !.connectionState = newState, !.contextKey = contextKeyValue(newState),
                       !.publishes = @ + 1])
    ELSE o

(***************************************************************************)
(* showRemoteMenu: the matcher, the sort and the item list.                *)
(***************************************************************************)
\* matchCurrentRemote(): the regular expression, as its scheme word and name (optional).
\* The name is spliced into the pattern as it is; the modelled names hold no
\* regular expression operator.
matchCurrentRemote(o) ==
    IF remoteAuthority # ""
    THEN << [word |-> "remote", name |-> getRemoteName(remoteAuthority)] >>
    ELSE IF o.virtualWorkspaceLocation # << >>
    THEN << [word |-> "virtualfs", name |-> o.virtualWorkspaceLocation[1].scheme] >>
    ELSE << >>

\* new RegExp(`^<word>_\d\d_<name>_`).test(key)
currentRemoteMatcherTest(m, key) ==
    ReLit(key, ReClass(key, ReClass(key, ReLit(key, {0}, m.word \o "_"), Digits), Digits),
          "_" \o m.name \o "_") # {}

\* Collation order of the characters group names are made of (punctuation, then
\* digits, then letters), as String.prototype.localeCompare orders them.
CollationOrder == "_-.+0123456789abcdefghijklmnopqrstuvwxyz"
CollationRank(c) == CHOOSE i \in 1..Len(CollationOrder) : Ch(CollationOrder, i) = c

\* The comparison at the first position i where a and b differ (i <= Len(a)).
compareAt(a, b, i) ==
    IF i > Len(b) THEN 1
    ELSE IF CollationRank(Ch(a, i)) < CollationRank(Ch(b, i)) THEN -1 ELSE 1

\* The least element of a non-empty set of numbers.
Least(S) == CHOOSE k \in S : \A j \in S : k <= j

\* a.localeCompare(b), diff being the positions of a where b differs or has ended.
compareDiff(a, b, diff) ==
    IF diff = {} THEN (IF Len(a) = Len(b) THEN 0 ELSE -1) ELSE compareAt(a, b, Least(diff))

\* a.localeCompare(b): negative, zero or positive.
localeCompare(a, b) ==
    compareDiff(a, b, { i \in 1..Len(a) : i > Len(b) \/ Ch(a, i) # Ch(b, i) })

\* Mutation of compareGroups: the keys are compared whatever the matcher says.
compareGroups_keyOnly(m, g1, g2) == localeCompare(g1.key, g2.key)

\* The comparator of the sort at lines 476-483.
compareGroups(m, g1, g2) ==
    IF currentRemoteMatcherTest(m, g1.key) # currentRemoteMatcherTest(m, g2.key)
    THEN (IF currentRemoteMatcherTest(m, g1.key) THEN -1 ELSE 1)
    ELSE localeCompare(g1.key, g2.key)

\* g placed after the first k elements of front.
insertAt(front, g, k) == SubSeq(front, 1, k) \o << g >> \o SubSeq(front, k + 1, Len(front))

\* g placed after the elements of the sorted front that do not compare greater.
insertSorted(m, front, g) ==
    insertAt(front, g, Cardinality({ i \in 1..Len(front) : compareGroups(m, front[i], g) <= 0 }))

RECURSIVE sortGroups(_, _)
\* Array.prototype.sort with that comparator: a stable sort.
sortGroups(m, groups) ==
    IF Len(groups) <= 1 THEN groups
    ELSE insertSorted(m, sortGroups(m, SubSeq(groups, 1, Len(groups) - 1)), groups[Len(groups)])

Separator(label) == [type |-> "separator", id |-> "", label |-> label]
Item(id, label) == [type |-> "item", id |-> id, label |-> label]

\* getCategoryLabel(action): "" stands for undefined (an empty category is falsy).
getCategoryLabel(action) == action.category

\* The items pushed for one action, and what follows them.
emitJoin(sep, category, action, rest) ==
    [items |-> (IF sep THEN << Separator(category) >> ELSE << >>)
               \o << Item(action.id, action.title) >> \o rest.items,
     last |-> rest.last]

RECURSIVE emitActions(_, _, _)
\* Mutation of emitMenuItem: lastCategoryName is not assigned.
emitMenuItem_forgetsCategory(actions, category, lastCategoryName, sep) ==
    emitJoin(sep, category, Head(actions), emitActions(Tail(actions), TRUE, lastCategoryName))

\* Lines 492-505 for a MenuItemAction: sep says whether a separator is pushed.
emitMenuItem(actions, category, lastCategoryName, sep) ==
    emitJoin(sep, category, Head(actions),
             emitActions(Tail(actions), TRUE, IF sep THEN category ELSE lastCategoryName))

\* The inner loop of lines 490-507 over one group's actions: the items pushed
\* and lastCategoryName after it.
emitActions(actions, hasGroupCategory, lastCategoryName) ==
    IF actions = << >> THEN [items |-> << >>, last |-> lastCategoryName]
    ELSE IF ~Head(actions).isMenuItem
    THEN emitActions(Tail(actions), hasGroupCategory, lastCategoryName)
    ELSE emitMenuItem(actions, getCategoryLabel(Head(actions)), lastCategoryName,
                      ~hasGroupCategory /\ getCategoryLabel(Head(actions)) # lastCategoryName)

RECURSIVE emitGroups(_, _)
emitRest(e, actionGroups) == e.items \o emitGroups(Tail(actionGroups), e.last)

\* The outer loop of lines 488-508.
emitGroups(actionGroups, lastCategoryName) ==
    IF actionGroups = << >> THEN << >>
    ELSE emitRest(emitActions(Head(actionGroups).actions, FALSE, lastCategoryName), actionGroups)

\* Mutation of fixedItems: Reload Window is offered while reconnecting too,
\* and the install entry whatever the extension gallery says.
fixedItems_eager(o) ==
    (IF SHOW_CLOSE_REMOTE_COMMAND_ID /\ remoteAuthority # ""
     THEN << Item(CLOSE_REMOTE_COMMAND_ID, "Close Remote Connection") >>
          \o (IF o.connectionState \in { "disconnected", "reconnecting" }
              THEN << Item(ReloadWindowActionID, "Reload Window") >> ELSE << >>)
     ELSE IF SHOW_CLOSE_REMOTE_COMMAND_ID /\ o.virtualWorkspaceLocation # << >>
     THEN << Item(CLOSE_REMOTE_COMMAND_ID, "Close Remote Workspace") >>
     ELSE << >>)
    \o << Item(CONNECT_REMOTE_COMMAND_ID, "Connect Remote Connection"),
          Separator(""),
          Item("remote.logRemoteAuthority", "Log Remote Authority"),
          Item("remote.logVirtualWorkspaceLocation", "Log Virtual Workspace Location"),
          Item("remote.logExtensionGalleryService", "Log Extension Gallery Service") >>
    \o (IF remoteAuthority = "" /\ o.virtualWorkspaceLocation = << >>
        THEN << Item(INSTALL_REMOTE_EXTENSIONS_ID, "Install Additional Remote Extensions...") >>
        ELSE << >>)

\* The entries pushed at lines 516-575.
fixedItems(o) ==
    (IF SHOW_CLOSE_REMOTE_COMMAND_ID /\ remoteAuthority # ""
     THEN << Item(CLOSE_REMOTE_COMMAND_ID, "Close Remote Connection") >>
          \o (IF o.connectionState = "disconnected"
              THEN << Item(ReloadWindowActionID, "Reload Window") >> ELSE << >>)
     ELSE IF SHOW_CLOSE_REMOTE_COMMAND_ID /\ o.virtualWorkspaceLocation # << >>
     THEN << Item(CLOSE_REMOTE_COMMAND_ID, "Close Remote Workspace") >>
     ELSE << >>)
    \o << Item(CONNECT_REMOTE_COMMAND_ID, "Connect Remote Connection"),
          Separator(""),
          Item("remote.logRemoteAuthority", "Log Remote Authority"),
          Item("remote.logVirtualWorkspaceLocation", "Log Virtual Workspace Location"),
          Item("remote.logExtensionGalleryService", "Log Extension Gallery Service") >>
    \o (IF remoteAuthority = "" /\ o.virtualWorkspaceLocation = << >> /\ extensionGalleryEnabled
        THEN << Item(INSTALL_REMOTE_EXTENSIONS_ID, "Install Additional Remote Extensions...") >>
        ELSE << >>)

\* Mutation of withFixedItems: the separator is popped in every case.
withFixedItems_popsAlways(contributed, fixed) == contributed \o fixed

\* Lines 510-579: the separator, then the fixed entries; the separator is
\* popped when no entry followed it.
withFixedItems(contributed, fixed) ==
    IF fixed = << >> THEN contributed ELSE contributed \o << Separator("") >> \o fixed

\* Lines 473-484: the groups in the order the loop visits them.
sortedForMatcher(m, groups) == IF m # << >> THEN sortGroups(m[1], groups) ELSE groups

\* Lines 486-581, g being the object after getRemoteMenuActions(true) and
\* actionGroups the sorted array. The sort is in place: the sorted array is the
\* one the cache holds.
buildItems(g, actionGroups) ==
    [items |-> withFixedItems(emitGroups(actionGroups, ""), fixedItems(g)),
     o |-> [g EXCEPT !.groups = << actionGroups >>]]

sortAndBuild(g) == buildItems(g, sortedForMatcher(matchCurrentRemote(g), g.groups[1]))

\* computeItems(): the items, and the object after the call.
computeItems(o) == sortAndBuild(getRemoteMenuActions(o, TRUE))

(***************************************************************************)
(* The state machine.                                                      *)
(***************************************************************************)
ConnectionEvents == { "ConnectionLost", "ReconnectionRunning", "ReconnectionWait",
                      "ReconnectionPermanentFailure", "ConnectionGain" }

\* The state the onDidStateChange listener sets for an event (the switch of lines 272-284).
eventTarget(e) ==
    CASE e \in { "ConnectionLost", "ReconnectionRunning", "ReconnectionWait" } -> "reconnecting"
      [] e = "ReconnectionPermanentFailure" -> "disconnected"
      [] e = "ConnectionGain" -> "connected"

\* The fields of the object become those of o; op names the handler that ran.
Commit(o, op) ==
    /\ connectionState' = o.connectionState
    /\ connectionStateContextKey' = o.contextKey
    /\ virtualWorkspaceLocation' = o.virtualWorkspaceLocation
    /\ remoteMenuActionsGroups' = o.groups
    /\ loggedInvalidGroupNames' = o.logged
    /\ logWarnings' = o.warnings
    /\ remoteStatusEntry' = o.entry
    /\ srcReads' = o.reads
    /\ renders' = o.renders
    /\ publishes' = o.publishes
    /\ lastOp' = op
    /\ unreadChanges' = IF o.reads > 0 THEN "none"
                        ELSE IF op # "updateRemoteActions" THEN unreadChanges
                        ELSE IF unreadChanges = "none" THEN "one" ELSE "many"

\* The fields of the object are those of o.
Fields(o) ==
    /\ connectionState = o.connectionState
    /\ connectionStateContextKey = o.contextKey
    /\ virtualWorkspaceLocation = o.virtualWorkspaceLocation
    /\ remoteMenuActionsGroups = o.groups
    /\ loggedInvalidGroupNames = o.logged
    /\ logWarnings = o.warnings
    /\ remoteStatusEntry = o.entry
    /\ srcReads = o.reads
    /\ renders = o.renders
    /\ publishes = o.publishes

\* quickPick.items = computeItems(), c being the outcome of computeItems().
CommitItems(c, op) == quickPick' = << c.items >> /\ Commit(c.o, op)

\* A direct call of getRemoteMenuActions, o being the object after it: what it
\* was given, the cache it found and what it returned are recorded.
CommitCall(o, doNotUseCache) ==
    /\ Commit(o, "getRemoteMenuActions")
    /\ lastGet' = << [doNotUseCache |-> doNotUseCache,
                      before |-> remoteMenuActionsGroups,
                      changes |-> unreadChanges,
                      served |-> servedGroups,
                      returned |-> o.groups[1]] >>
    /\ servedGroups' = IF doNotUseCache THEN servedGroups ELSE o.groups

\* The state after the constructor has run, for one configuration and one
\* content of the two menus.
Constructed(authority, workspace, gallery, current, legacy) ==
    /\ remoteAuthority = authority
    /\ extensionGalleryEnabled = gallery
    /\ remoteIndicatorMenu = current
    /\ legacyIndicatorMenu = legacy
    /\ Fields(updateRemoteStatusIndicator(
                  [connectionState |-> IF authority # "" THEN "initializing" ELSE "undefined",
                   contextKey |-> IF authority # "" THEN "initializing" ELSE "",
                   virtualWorkspaceLocation |->
                       IF authority # "" THEN << >> ELSE getVirtualWorkspaceLocation(workspace),
                   groups |-> << >>, logged |-> {}, warnings |-> << >>, entry |-> << >>,
                   reads |-> 0, renders |-> 0,
                   publishes |-> IF authority # "" THEN 1 ELSE 0]))
    /\ workspaceRead = IF authority # "" THEN << >> ELSE << workspace >>
    /\ lastOp = "constructor"
    /\ extensionsPc = "awaitRegistered"
    /\ resolveCalls = 0
    /\ quickPick = << >>
    /\ pending = << >>
    /\ lastEvent = "none"
    /\ settledAfterGain = FALSE
    /\ lastGet = << >>
    /\ servedGroups = << >>
    /\ unreadChanges = "none"
    /\ groupArg = ""
    /\ argTokens = 0
    /\ validResults = {}

\* isEnabled() is called only in a window without a remote authority (line
\* 568), so what it returns is drawn for that window only.
Init ==
    \E authority \in RemoteAuthorities, workspace \in WorkspaceLocations,
       current \in MenuContents(CurrentCatalog), legacy \in MenuContents(LegacyCatalog) :
        \E gallery \in { g \in BOOLEAN : authority = "" \/ g } :
            Constructed(authority, workspace, gallery, current, legacy)

\* updateWhenInstalledExtensionsRegistered after its await: the resolution is
\* started (when there is a remote authority) and the indicator updated.
WhenInstalledExtensionsRegistered ==
    /\ pending = << >>
    /\ extensionsPc = "awaitRegistered"
    /\ IF remoteAuthority # ""
       THEN extensionsPc' = "resolving" /\ resolveCalls' = resolveCalls + 1
       ELSE extensionsPc' = "done" /\ UNCHANGED resolveCalls
    /\ Commit(updateRemoteStatusIndicator(This), "updateWhenInstalledExtensionsRegistered")
    /\ lastGet' = << >>
    /\ UNCHANGED servedGroups
    /\ UNCHANGED << remoteAuthority, extensionGalleryEnabled, workspaceRead, remoteIndicatorMenu, legacyIndicatorMenu,
                    quickPick, pending, lastEvent, settledAfterGain,
                    groupArg, argTokens, validResults >>

\* Mutation of ResolveAuthoritySettled: a rejected resolution is issued again.
ResolveAuthoritySettled_retries(ok) ==
    /\ pending = << >>
    /\ extensionsPc = "resolving"
    /\ IF ok THEN extensionsPc' = "done" /\ UNCHANGED resolveCalls
             ELSE extensionsPc' = "resolving" /\ resolveCalls' = resolveCalls + 1
    /\ Commit(setState(This, IF ok THEN "connected" ELSE "disconnected"), "resolveAuthority")
    /\ lastEvent' = IF ok THEN "ResolveSuccess" ELSE "ResolveFailure"
    /\ settledAfterGain' = (lastEvent = "ConnectionGain")
    /\ lastGet' = << >>
    /\ UNCHANGED servedGroups
    /\ UNCHANGED << remoteAuthority, extensionGalleryEnabled, workspaceRead, remoteIndicatorMenu, legacyIndicatorMenu,
                    quickPick, pending, groupArg, argTokens, validResults >>

\* Mutation of ResolveAuthoritySettled: the rejection is not caught, so that the
\* state is set only when the resolution succeeds.
ResolveAuthoritySettled_uncaught(ok) ==
    /\ pending = << >>
    /\ extensionsPc = "resolving"
    /\ extensionsPc' = "done"
    /\ Commit(IF ok THEN setState(This, "connected") ELSE This, "resolveAuthority")
    /\ lastEvent' = IF ok THEN "ResolveSuccess" ELSE "ResolveFailure"
    /\ settledAfterGain' = (lastEvent = "ConnectionGain")
    /\ lastGet' = << >>
    /\ UNCHANGED servedGroups
    /\ UNCHANGED << remoteAuthority, extensionGalleryEnabled, workspaceRead, remoteIndicatorMenu, legacyIndicatorMenu,
                    resolveCalls, quickPick, pending, groupArg, argTokens, validResults >>

\* The continuation of `await resolveAuthority(...)`: resolved (ok) or rejected.
ResolveAuthoritySettled(ok) ==
    /\ pending = << >>
    /\ extensionsPc = "resolving"
    /\ extensionsPc' = "done"
    /\ Commit(setState(This, IF ok THEN "connected" ELSE "disconnected"), "resolveAuthority")
    /\ lastEvent' = IF ok THEN "ResolveSuccess" ELSE "ResolveFailure"
    /\ settledAfterGain' = (lastEvent = "ConnectionGain")
    /\ lastGet' = << >>
    /\ UNCHANGED servedGroups
    /\ UNCHANGED << remoteAuthority, extensionGalleryEnabled, workspaceRead, remoteIndicatorMenu, legacyIndicatorMenu,
                    resolveCalls, quickPick, pending, groupArg, argTokens, validResults >>

\* Mutation of ConnectionStateChange: the listener is registered in every window.
ConnectionStateChange_always(e) ==
    /\ pending = << >>
    /\ Commit(setState(This, eventTarget(e)), "onDidStateChange")
    /\ lastEvent' = e
    /\ lastGet' = << >>
    /\ UNCHANGED servedGroups
    /\ UNCHANGED << remoteAuthority, extensionGalleryEnabled, workspaceRead, remoteIndicatorMenu, legacyIndicatorMenu,
                    extensionsPc, resolveCalls, quickPick, pending, settledAfterGain,
                    groupArg, argTokens, validResults >>

\* The connection.onDidStateChange listener, registered when there is a remote authority.
ConnectionStateChange(e) ==
    /\ pending = << >>
    /\ remoteAuthority # ""
    /\ Commit(setState(This, eventTarget(e)), "onDidStateChange")
    /\ lastEvent' = e
    /\ lastGet' = << >>
    /\ UNCHANGED servedGroups
    /\ UNCHANGED << remoteAuthority, extensionGalleryEnabled, workspaceRead, remoteIndicatorMenu, legacyIndicatorMenu,
                    extensionsPc, resolveCalls, quickPick, pending, settledAfterGain,
                    groupArg, argTokens, validResults >>

\* Mutation of MenuDidChange: the open quick pick listens to the current menu only.
MenuDidChange_remoteOnly(menu, content) ==
    /\ pending = << >>
    /\ IF menu = "remote"
       THEN remoteIndicatorMenu' = content /\ UNCHANGED legacyIndicatorMenu
       ELSE legacyIndicatorMenu' = content /\ UNCHANGED remoteIndicatorMenu
    /\ pending' = << "updateRemoteActions" >>
                  \o (IF quickPick # << >> /\ menu = "remote" THEN << "itemUpdater" >> ELSE << >>)
    /\ lastOp' = "onDidChange"
    /\ srcReads' = 0 /\ renders' = 0 /\ publishes' = 0 /\ UNCHANGED unreadChanges
    /\ lastGet' = << >>
    /\ servedGroups' = << >>
    /\ UNCHANGED << remoteAuthority, extensionGalleryEnabled, workspaceRead, virtualWorkspaceLocation, connectionState,
                    connectionStateContextKey, extensionsPc, resolveCalls,
                    remoteMenuActionsGroups, loggedInvalidGroupNames, logWarnings,
                    remoteStatusEntry, quickPick, lastEvent, settledAfterGain,
                    groupArg, argTokens, validResults >>

\* Environment: a menu's content becomes `content` and its onDidChange fires. Its
\* listeners run in the order they were registered: updateRemoteActions (the
\* constructor's), then the item updater of the quick pick that is open.
MenuDidChange(menu, content) ==
    /\ pending = << >>
    /\ IF menu = "remote"
       THEN remoteIndicatorMenu' = content /\ UNCHANGED legacyIndicatorMenu
       ELSE legacyIndicatorMenu' = content /\ UNCHANGED remoteIndicatorMenu
    /\ pending' = << "updateRemoteActions" >>
                  \o (IF quickPick # << >> THEN << "itemUpdater" >> ELSE << >>)
    /\ lastOp' = "onDidChange"
    /\ srcReads' = 0 /\ renders' = 0 /\ publishes' = 0 /\ UNCHANGED unreadChanges
    /\ lastGet' = << >>
    /\ servedGroups' = << >>
    /\ UNCHANGED << remoteAuthority, extensionGalleryEnabled, workspaceRead, virtualWorkspaceLocation, connectionState,
                    connectionStateContextKey, extensionsPc, resolveCalls,
                    remoteMenuActionsGroups, loggedInvalidGroupNames, logWarnings,
                    remoteStatusEntry, quickPick, lastEvent, settledAfterGain,
                    groupArg, argTokens, validResults >>

\* The listener updateRemoteActions (lines 250-253).
UpdateRemoteActions ==
    /\ pending # << >>
    /\ Head(pending) = "updateRemoteActions"
    /\ pending' = Tail(pending)
    /\ Commit(updateRemoteStatusIndicator([This EXCEPT !.groups = << >>]), "updateRemoteActions")
    /\ lastGet' = << >>
    /\ UNCHANGED servedGroups
    /\ UNCHANGED << remoteAuthority, extensionGalleryEnabled, workspaceRead, remoteIndicatorMenu, legacyIndicatorMenu,
                    extensionsPc, resolveCalls, quickPick, lastEvent, settledAfterGain,
                    groupArg, argTokens, validResults >>

\* The listener of the open quick pick (lines 598 and 601): its items are computed again.
ItemUpdater ==
    /\ pending # << >>
    /\ Head(pending) = "itemUpdater"
    /\ pending' = Tail(pending)
    /\ CommitItems(computeItems(This), "itemUpdater")
    /\ lastGet' = << >>
    /\ UNCHANGED servedGroups
    /\ UNCHANGED << remoteAuthority, extensionGalleryEnabled, workspaceRead, remoteIndicatorMenu, legacyIndicatorMenu,
                    extensionsPc, resolveCalls, lastEvent, settledAfterGain,
                    groupArg, argTokens, validResults >>

\* showRemoteMenu(): a quick pick is created with the computed items and shown
\* (it replaces the one that was open).
ShowRemoteMenu ==
    /\ pending = << >>
    /\ CommitItems(computeItems(This), "showRemoteMenu")
    /\ lastGet' = << >>
    /\ UNCHANGED servedGroups
    /\ UNCHANGED << remoteAuthority, extensionGalleryEnabled, workspaceRead, remoteIndicatorMenu, legacyIndicatorMenu,
                    extensionsPc, resolveCalls, pending, lastEvent, settledAfterGain,
                    groupArg, argTokens, validResults >>

\* The quick pick is hidden: on accepting one selected item (its command is
\* executed, then hide()) or on dismissal. The item updaters are disposed.
QuickPickHide(accepted) ==
    /\ pending = << >>
    /\ quickPick # << >>
    /\ accepted => \E i \in 1..Len(quickPick[1]) : quickPick[1][i].type = "item"
    /\ quickPick' = << >>
    /\ lastOp' = IF accepted THEN "onDidAccept" ELSE "onDidHide"
    /\ srcReads' = 0 /\ renders' = 0 /\ publishes' = 0 /\ UNCHANGED unreadChanges
    /\ lastGet' = << >>
    /\ UNCHANGED servedGroups
    /\ UNCHANGED << remoteAuthority, extensionGalleryEnabled, workspaceRead, virtualWorkspaceLocation, connectionState,
                    connectionStateContextKey, extensionsPc, resolveCalls, remoteIndicatorMenu,
                    legacyIndicatorMenu, remoteMenuActionsGroups, loggedInvalidGroupNames,
                    logWarnings, remoteStatusEntry, pending, lastEvent, settledAfterGain,
                    groupArg, argTokens, validResults >>

\* A call of getRemoteMenuActions(doNotUseCache) by one of its callers (lines 416
\* and 428 pass no argument, line 469 passes true).
GetRemoteMenuActions(doNotUseCache) ==
    /\ pending = << >>
    /\ CommitCall(getRemoteMenuActions(This, doNotUseCache), doNotUseCache)
    /\ UNCHANGED << remoteAuthority, extensionGalleryEnabled, workspaceRead, remoteIndicatorMenu, legacyIndicatorMenu,
                    extensionsPc, resolveCalls, quickPick, pending, lastEvent, settledAfterGain,
                    groupArg, argTokens, validResults >>

\* Mutation of WorkbenchStateChange: the listener is registered in every window.
WorkbenchStateChange_always(workspace) ==
    /\ pending = << >>
    /\ Commit(updateRemoteStatusIndicator(
                  [This EXCEPT !.virtualWorkspaceLocation = getVirtualWorkspaceLocation(workspace)]),
              "onDidChangeWorkbenchState")
    /\ workspaceRead' = << workspace >>
    /\ lastGet' = << >>
    /\ UNCHANGED servedGroups
    /\ UNCHANGED << remoteAuthority, extensionGalleryEnabled, remoteIndicatorMenu, legacyIndicatorMenu,
                    extensionsPc, resolveCalls, quickPick, pending, lastEvent, settledAfterGain,
                    groupArg, argTokens, validResults >>

\* Environment: the workspace changes. The onDidChangeWorkbenchState listener
\* (lines 288-291) is registered only when there is no remote authority; it
\* reads the workspace (line 296) and updates the indicator.
WorkbenchStateChange(workspace) ==
    /\ pending = << >>
    /\ IF remoteAuthority = ""
       THEN /\ Commit(updateRemoteStatusIndicator(
                          [This EXCEPT !.virtualWorkspaceLocation =
                                           getVirtualWorkspaceLocation(workspace)]),
                      "onDidChangeWorkbenchState")
            /\ workspaceRead' = << workspace >>
       ELSE /\ lastOp' = "none"
            /\ srcReads' = 0 /\ renders' = 0 /\ publishes' = 0 /\ UNCHANGED unreadChanges
            /\ UNCHANGED << virtualWorkspaceLocation, connectionState, connectionStateContextKey,
                            remoteMenuActionsGroups, loggedInvalidGroupNames, logWarnings,
                            remoteStatusEntry, workspaceRead >>
    /\ lastGet' = << >>
    /\ UNCHANGED servedGroups
    /\ UNCHANGED << remoteAuthority, extensionGalleryEnabled, remoteIndicatorMenu, legacyIndicatorMenu,
                    extensionsPc, resolveCalls, quickPick, pending, lastEvent, settledAfterGain,
                    groupArg, argTokens, validResults >>

Next ==
    \/ WhenInstalledExtensionsRegistered
    \/ \E ok \in BOOLEAN : ResolveAuthoritySettled(ok)
    \/ \E e \in ConnectionEvents : ConnectionStateChange(e)
    \/ \E content \in MenuContents(CurrentCatalog) : MenuDidChange("remote", content)
    \/ \E content \in MenuContents(LegacyCatalog) : MenuDidChange("legacy", content)
    \/ UpdateRemoteActions
    \/ ItemUpdater
    \/ ShowRemoteMenu
    \/ \E accepted \in BOOLEAN : QuickPickHide(accepted)
    \/ \E doNotUseCache \in BOOLEAN : GetRemoteMenuActions(doNotUseCache)
    \/ \E workspace \in WorkspaceLocations : WorkbenchStateChange(workspace)

Spec == Init /\ [][Next]_vars

(***************************************************************************)
(* Progress.  The handlers that set the connection state, with the menu    *)
(* and workspace events that are delivered in between; no quick pick is    *)
(* opened.  The listener of a menu event runs synchronously (weak          *)
(* fairness).  The continuation of the await of line 300 and the one of    *)
(* line 310 run in a turn of their own once their promise has settled:     *)
(* whenever no listener is being run they can run, and they do (strong     *)
(* fairness, since the turns of the listeners interrupt them).  Nothing    *)
(* obliges the environment to deliver connection events or to change the   *)
(* menus or the workspace.                                                 *)
(***************************************************************************)
NextLive ==
    \/ WhenInstalledExtensionsRegistered
    \/ \E ok \in BOOLEAN : ResolveAuthoritySettled(ok)
    \/ \E e \in ConnectionEvents : ConnectionStateChange(e)
    \/ \E content \in MenuContents(CurrentCatalog) : MenuDidChange("remote", content)
    \/ \E content \in MenuContents(LegacyCatalog) : MenuDidChange("legacy", content)
    \/ UpdateRemoteActions
    \/ \E workspace \in WorkspaceLocations : WorkbenchStateChange(workspace)

Fairness ==
    /\ WF_vars(UpdateRemoteActions)
    /\ SF_vars(WhenInstalledExtensionsRegistered)
    /\ SF_vars(\E ok \in BOOLEAN : ResolveAuthoritySettled(ok))

SpecLive == Init /\ [][NextLive]_vars /\ Fairness

(***************************************************************************)
(* Reentrant invalidation.  The rebuild of line 348 makes three calls out  *)
(* of the object: remoteIndicatorMenu.getActions(), logService.warn (from  *)
(* validatedGroup) and legacyIndicatorMenu.getActions().  Here the current *)
(* menu's content changes and its onDidChange is delivered synchronously   *)
(* inside the last of them, after the current menu was read and filtered   *)
(* and before the assignment.  No quick pick is open, so updateRemoteActions*)
(* is the only listener that runs.                                         *)
(***************************************************************************)
\* The listener updateRemoteActions (lines 250-253) run inside the rebuild, f
\* being the outcome of the filter, followed by the assignment of line 348.
storeAfterChange(f) ==
    storeGroups([kept |-> f.kept,
                 o |-> updateRemoteStatusIndicator([f.o EXCEPT !.groups = << >>])])

\* A call of getRemoteMenuActions(doNotUseCache) that rebuilds, during which
\* the current menu's content becomes `content`.
GetRemoteMenuActionsReentrant(doNotUseCache, content) ==
    /\ pending = << >>
    /\ quickPick = << >>
    /\ remoteMenuActionsGroups = << >> \/ doNotUseCache
    /\ content # remoteIndicatorMenu
    /\ remoteIndicatorMenu' = content
    /\ CommitCall(storeAfterChange(FilterValidated(This, remoteIndicatorMenu)), doNotUseCache)
    /\ UNCHANGED << remoteAuthority, extensionGalleryEnabled, workspaceRead, legacyIndicatorMenu,
                    extensionsPc, resolveCalls, quickPick, pending, lastEvent, settledAfterGain,
                    groupArg, argTokens, validResults >>

\* The handlers that write or read the cache while no quick pick is open, and
\* the menus' changes.
NextReentrant ==
    \/ \E content \in MenuContents(CurrentCatalog) : MenuDidChange("remote", content)
    \/ \E content \in MenuContents(LegacyCatalog) : MenuDidChange("legacy", content)
    \/ UpdateRemoteActions
    \/ \E doNotUseCache \in BOOLEAN : GetRemoteMenuActions(doNotUseCache)
    \/ \E doNotUseCache \in BOOLEAN, content \in MenuContents(CurrentCatalog) :
           GetRemoteMenuActionsReentrant(doNotUseCache, content)

SpecReentrant == Init /\ [][NextReentrant]_vars

(***************************************************************************)
(* The validator on its own: a group name is put together from tokens and  *)
(* validatedGroup is called on it, any number of times.                    *)
(***************************************************************************)
Tokens == { "remote_", "virtualfs_", "00", "0", "_", "s+", "X", "\n" }

\* The group name under test grows by one token.
ExtendGroupArg(t) ==
    /\ validResults = {}
    /\ argTokens < MaxTokens
    /\ groupArg' = groupArg \o t
    /\ argTokens' = argTokens + 1
    /\ UNCHANGED << remoteAuthority, extensionGalleryEnabled, workspaceRead, virtualWorkspaceLocation, connectionState,
                    connectionStateContextKey, extensionsPc, resolveCalls, remoteIndicatorMenu,
                    legacyIndicatorMenu, remoteMenuActionsGroups, loggedInvalidGroupNames,
                    logWarnings, remoteStatusEntry, quickPick, pending, lastEvent,
                    settledAfterGain, lastOp, lastGet, servedGroups, unreadChanges, srcReads, renders,
                    publishes, validResults >>

\* Group names under test that the tokens do not compose.
ExampleGroups == { "remote_00_ssh_auth", "virtualfs_12_github_browse",
                   "foo_00_bar_baz", "remote_1_ssh_x" }

\* The group name under test becomes one of the examples.
ChooseExample(group) ==
    /\ validResults = {}
    /\ argTokens = 0
    /\ groupArg' = group
    /\ argTokens' = MaxTokens
    /\ UNCHANGED << remoteAuthority, extensionGalleryEnabled, workspaceRead, virtualWorkspaceLocation, connectionState,
                    connectionStateContextKey, extensionsPc, resolveCalls, remoteIndicatorMenu,
                    legacyIndicatorMenu, remoteMenuActionsGroups, loggedInvalidGroupNames,
                    logWarnings, remoteStatusEntry, quickPick, pending, lastEvent,
                    settledAfterGain, lastOp, lastGet, servedGroups, unreadChanges, srcReads, renders,
                    publishes, validResults >>

\* v being the outcome of validatedGroup(groupArg): its result is recorded.
CommitValidated(v) == validResults' = validResults \cup {v.ok} /\ Commit(v.o, "validatedGroup")

\* A call of validatedGroup(groupArg).
ValidatedGroupCall ==
    /\ CommitValidated(validatedGroup(This, groupArg))
    /\ UNCHANGED << remoteAuthority, extensionGalleryEnabled, workspaceRead, extensionsPc, resolveCalls,
                    remoteIndicatorMenu, legacyIndicatorMenu, quickPick, pending, lastEvent,
                    settledAfterGain, lastGet, servedGroups, groupArg, argTokens >>

NextValidate ==
    \/ \E t \in Tokens : ExtendGroupArg(t)
    \/ \E group \in ExampleGroups : ChooseExample(group)
    \/ ValidatedGroupCall

SpecValidate == Constructed("", << >>, TRUE, << >>, << >>) /\ [][NextValidate]_vars

(***************************************************************************)
(* Properties.                                                             *)
(***************************************************************************)
Range(q) == { q[i] : i \in 1..Len(q) }
NoDuplicates(q) == \A i, j \in 1..Len(q) : i # j => q[i] # q[j]
IsPrefix(p, q) == Len(p) <= Len(q) /\ SubSeq(q, 1, Len(p)) = p

\* The state each delivered event is documented to lead to.
DocumentedTarget(e) ==
    CASE e = "ConnectionLost" -> "reconnecting"
      [] e = "ReconnectionRunning" -> "reconnecting"
      [] e = "ReconnectionWait" -> "reconnecting"
      [] e = "ReconnectionPermanentFailure" -> "disconnected"
      [] e = "ConnectionGain" -> "connected"
      [] e = "ResolveSuccess" -> "connected"
      [] e = "ResolveFailure" -> "disconnected"

\* C1: with a remote authority, the connection state is the documented target
\* of the most recently delivered event, whatever state that event found, and
\* is 'initializing' exactly as long as no event has been delivered.
C1_LastDeliveredEventWins ==
    remoteAuthority # "" =>
        connectionState = IF lastEvent = "none" THEN "initializing"
                          ELSE DocumentedTarget(lastEvent)

\* A permanent failure delivered after the resolution has settled.
C1_Witness ==
    /\ remoteAuthority # ""
    /\ extensionsPc = "done"
    /\ lastEvent = "ReconnectionPermanentFailure"
    /\ connectionState = "disconnected"

\* C2 as stated: a resolution failure that arrives right after ConnectionGain
\* leaves the state at 'connected'.
C2_LateFailureLeavesConnected ==
    (lastEvent = "ResolveFailure" /\ settledAfterGain) => connectionState = "connected"

\* C2 amended: a resolution failure that arrives right after ConnectionGain
\* sets the state to 'disconnected' (and publishes it), like any later event.
C2_LateFailureDisconnects ==
    (lastEvent = "ResolveFailure" /\ settledAfterGain) =>
        /\ connectionState = "disconnected"
        /\ connectionStateContextKey = "disconnected"
        /\ lastOp = "resolveAuthority" => publishes = 1

\* ConnectionGain was delivered while initializing, then the resolution failed.
C2_Witness ==
    /\ lastEvent = "ResolveFailure"
    /\ settledAfterGain
    /\ lastOp = "resolveAuthority"

\* The coarse value documented for each connection state.
CoarseProjection(state) ==
    CASE state = "undefined" -> ""
      [] state = "initializing" -> "initializing"
      [] state = "connected" -> "connected"
      [] state = "disconnected" -> "disconnected"
      [] state = "reconnecting" -> "disconnected"

\* C3: between handlers the context key holds the coarse projection of the
\* connection state, and never 'reconnecting'.
C3_ContextKeyIsProjection ==
    /\ connectionStateContextKey = CoarseProjection(connectionState)
    /\ connectionStateContextKey # "reconnecting"

\* The state is 'reconnecting' and the key presents it as 'disconnected'.
C3_Witness ==
    /\ connectionState = "reconnecting"
    /\ connectionStateContextKey = "disconnected"
    /\ lastOp = "onDidStateChange"

\* C4: with a remote authority the state is 'initializing' right after
\* construction and resolveAuthority has been called once as soon as the
\* extensions are registered, and never again; without one it is never called.
C4_ResolveIssuedOnce ==
    /\ (remoteAuthority # "" /\ lastOp = "constructor") => connectionState = "initializing"
    /\ remoteAuthority # "" =>
           resolveCalls = IF extensionsPc = "awaitRegistered" THEN 0 ELSE 1
    /\ remoteAuthority = "" => resolveCalls = 0

\* The resolution failed, later events were delivered, and it was issued once.
C4_Witness ==
    /\ remoteAuthority # ""
    /\ extensionsPc = "done"
    /\ settledAfterGain
    /\ lastEvent = "ConnectionLost"
    /\ connectionStateContextKey = "disconnected"
    /\ resolveCalls = 1

\* C5 as stated: a getRemoteMenuActions(false) call returns the sequence the
\* previous getRemoteMenuActions(false) call returned when no menu change was
\* notified between the two calls.
C5_UnforcedCallsReturnSameSequence ==
    (lastGet # << >> /\ ~lastGet[1].doNotUseCache /\ lastGet[1].served # << >>) =>
        lastGet[1].returned = lastGet[1].served[1]

\* The positions of the groups of one tier in a sequence of groups, in order.
TierOf(groups, tier) == SelectSeq(groups, LAMBDA g : g.tier = tier)

\* C7 as stated: every sequence getRemoteMenuActions returns has all groups of
\* the current menu before all groups of the legacy menu, each menu's groups in
\* the order the menu supplied them.
C7_ReturnedCurrentBeforeLegacy ==
    lastGet # << >> =>
        /\ lastGet[1].returned = TierOf(lastGet[1].returned, "current")
                                 \o TierOf(lastGet[1].returned, "legacy")
        /\ TierOf(lastGet[1].returned, "legacy") = legacyIndicatorMenu
        /\ \E keep \in SUBSET (1..Len(remoteIndicatorMenu)) :
               TierOf(lastGet[1].returned, "current")
                   = [i \in 1..Cardinality(keep) |->
                         remoteIndicatorMenu[CHOOSE k \in keep :
                             Cardinality({ j \in keep : j < k }) = i - 1]]

\* c is one of the characters of the string chars.
OneOf(c, chars) == \E i \in 1..Len(chars) : SubSeq(chars, i, i) = c

\* s is a name: a lowercase letter followed by characters from [a-z0-9+.-].
IsName(s) ==
    /\ Len(s) >= 1
    /\ OneOf(SubSeq(s, 1, 1), "abcdefghijklmnopqrstuvwxyz")
    /\ \A i \in 2..Len(s) : OneOf(SubSeq(s, i, i), "abcdefghijklmnopqrstuvwxyz0123456789+.-")

\* s is two decimal digits.
IsTwoDigits(s) ==
    Len(s) = 2 /\ \A i \in 1..2 : OneOf(SubSeq(s, i, i), "0123456789")

\* The documented form of a group key: (remote|virtualfs) '_' two digits '_' a
\* name '_' a grouping tag. anyTag says whether every tag is admitted or only
\* the tags without a line terminator.
HasDocumentedForm(s, anyTag) ==
    \E prefix \in { "remote", "virtualfs" } :
        \E nameEnd \in (Len(prefix) + 5)..(Len(s) - 1) :
            /\ SubSeq(s, 1, Len(prefix) + 1) = prefix \o "_"
            /\ IsTwoDigits(SubSeq(s, Len(prefix) + 2, Len(prefix) + 3))
            /\ SubSeq(s, Len(prefix) + 4, Len(prefix) + 4) = "_"
            /\ IsName(SubSeq(s, Len(prefix) + 5, nameEnd))
            /\ SubSeq(s, nameEnd + 1, nameEnd + 1) = "_"
            /\ anyTag \/ \A i \in (nameEnd + 2)..Len(s) : ~OneOf(SubSeq(s, i, i), "\n\r")

\* The rebuilt cache a handler leaves: the current menu's groups with a key of
\* the documented form, then the legacy menu's groups.
DocumentedAggregate ==
    SelectSeq(remoteIndicatorMenu, LAMBDA g : HasDocumentedForm(g.key, FALSE))
        \o legacyIndicatorMenu

\* The handlers that call getRemoteMenuActions.
ReadingOps == { "getRemoteMenuActions", "showRemoteMenu", "itemUpdater" }

\* C6: the handler of a menu change leaves the cache unset without querying
\* the menus; the menus are queried only in a getRemoteMenuActions call, and
\* the call that follows any number of menu changes queries them once.
C6_ChangeClearsWithoutRebuild ==
    /\ lastOp \in { "onDidChange", "updateRemoteActions" } => srcReads = 0
    /\ lastOp = "updateRemoteActions" => remoteMenuActionsGroups = << >>
    /\ unreadChanges # "none" => remoteMenuActionsGroups = << >>
    /\ srcReads > 0 => lastOp \in ReadingOps /\ srcReads = 1
    /\ (lastGet # << >> /\ lastGet[1].changes # "none") =>
           /\ lastGet[1].before = << >>
           /\ srcReads = 1
           /\ remoteMenuActionsGroups = << DocumentedAggregate >>

\* Several menu changes were handled, then one unforced call rebuilt the cache.
C6_Witness ==
    /\ lastGet # << >>
    /\ lastGet[1].changes = "many"
    /\ ~lastGet[1].doNotUseCache
    /\ srcReads = 1
    /\ remoteMenuActionsGroups # << >>
    /\ Len(remoteMenuActionsGroups[1]) >= 2

\* The ids of the entries the quick pick shows.
PresentedIds == { quickPick[1][i].id : i \in 1..Len(quickPick[1]) }

\* The current menu's groups whose key has, or has not, the documented form.
CurrentGroups(valid) ==
    SelectSeq(remoteIndicatorMenu, LAMBDA g : HasDocumentedForm(g.key, FALSE) = valid)

\* The ids of the menu item actions of a sequence of groups.
ActionIds(groups) ==
    UNION { { groups[i].actions[j].id : j \in { k \in 1..Len(groups[i].actions) :
                                                   groups[i].actions[k].isMenuItem } } :
            i \in 1..Len(groups) }

\* C8: the cache a rebuild leaves holds exactly the current menu's groups with
\* a valid key and all the legacy menu's groups; the items presented hold the
\* actions of those groups and none of a current group with an invalid key;
\* and a rebuild logs nothing when every key of the current menu is valid,
\* whatever the keys of the legacy menu.
C8_RebuildKeepsValidAndLegacy ==
    /\ [](srcReads = 1 =>
            /\ Range(remoteMenuActionsGroups[1])
                   = Range(CurrentGroups(TRUE)) \cup Range(legacyIndicatorMenu)
            /\ Len(remoteMenuActionsGroups[1])
                   = Len(CurrentGroups(TRUE)) + Len(legacyIndicatorMenu))
    /\ []((srcReads = 1 /\ lastOp \in { "showRemoteMenu", "itemUpdater" }) =>
            /\ ActionIds(CurrentGroups(TRUE)) \cup ActionIds(legacyIndicatorMenu)
                   \subseteq PresentedIds
            /\ ActionIds(CurrentGroups(FALSE)) \cap PresentedIds = {})
    /\ [][logWarnings' # logWarnings => CurrentGroups(FALSE) # << >>]_vars

\* A rebuild for the quick pick dropped the current group with the invalid key
\* and kept the valid current group and the legacy group with the same key.
C8_Witness ==
    /\ srcReads = 1
    /\ lastOp = "showRemoteMenu"
    /\ Len(CurrentGroups(FALSE)) = 1
    /\ Len(CurrentGroups(TRUE)) = 1
    /\ \E i \in 1..Len(legacyIndicatorMenu) : legacyIndicatorMenu[i].key = "foo_00_bar_baz"
    /\ "foo.l" \in PresentedIds
    /\ "foo.x" \notin PresentedIds

\* C9: each invalid key is logged at most once, the logged keys and the log
\* only grow (a menu change or a rebuild resets neither), only invalid keys
\* are logged, and validating valid keys only changes neither.
C9_InvalidKeyLoggedOnce ==
    /\ [](/\ NoDuplicates(logWarnings)
          /\ Range(logWarnings) = loggedInvalidGroupNames
          /\ \A key \in loggedInvalidGroupNames : ~HasDocumentedForm(key, FALSE))
    /\ [][/\ loggedInvalidGroupNames \subseteq loggedInvalidGroupNames'
          /\ IsPrefix(logWarnings, logWarnings')
          /\ loggedInvalidGroupNames' # loggedInvalidGroupNames =>
                 CurrentGroups(FALSE) # << >>]_vars

\* The cache had been built from menus holding the invalid key, and a forced
\* rebuild met the key again: it is in the log once.
C9_Witness ==
    /\ lastGet # << >>
    /\ lastGet[1].doNotUseCache
    /\ lastGet[1].before # << >>
    /\ lastGet[1].changes = "none"
    /\ srcReads = 1
    /\ Len(CurrentGroups(FALSE)) = 1
    /\ logWarnings = << "foo_00_bar_baz" >>

\* C10 as stated: validatedGroup(s) returns true exactly for the keys of the
\* documented form, the grouping tag being any string.
C10_ValidIffDocumentedFormAnyTag ==
    \A result \in validResults : result = HasDocumentedForm(groupArg, TRUE)

\* C10 amended: validatedGroup(s) returns true exactly for the keys of the
\* documented form whose grouping tag holds no line terminator; the two
\* documented examples are accepted and the two others rejected.
C10_ValidIffDocumentedForm ==
    /\ \A result \in validResults : result = HasDocumentedForm(groupArg, FALSE)
    /\ groupArg \in { "remote_00_ssh_auth", "virtualfs_12_github_browse" } =>
           FALSE \notin validResults
    /\ groupArg \in { "foo_00_bar_baz", "remote_1_ssh_x" } => TRUE \notin validResults

\* A key of the documented form but for a line feed in its tag was rejected.
C10_Witness ==
    /\ validResults = { FALSE }
    /\ HasDocumentedForm(groupArg, TRUE)
    /\ lastOp = "validatedGroup"
    /\ logWarnings = << groupArg >>

\* The grouping tag of a key: what follows its third underscore ("" when the
\* key has fewer than three).
TagOf(s) ==
    LET underscores == { i \in 1..Len(s) : SubSeq(s, i, i) = "_" }
        third == { i \in underscores : Cardinality({ j \in underscores : j < i }) = 2 }
    IN  IF third = {} THEN ""
        ELSE SubSeq(s, (CHOOSE i \in third : TRUE) + 1, Len(s))

\* C11 as stated: validatedGroup accepts a key only if the key has the
\* documented form with a non-empty grouping tag.
C11_AcceptedOnlyWithTag ==
    TRUE \in validResults => (HasDocumentedForm(groupArg, FALSE) /\ TagOf(groupArg) # "")

\* C11 amended: a key of the documented form is accepted also when its
\* grouping tag is empty, and accepting it logs nothing; a rejected key is in
\* the log exactly once, however often it is validated.
C11_EmptyTagAccepted ==
    /\ (HasDocumentedForm(groupArg, FALSE) /\ TagOf(groupArg) = "") =>
           (FALSE \notin validResults /\ logWarnings = << >>)
    /\ TRUE \in validResults => logWarnings = << >>
    /\ FALSE \in validResults =>
           (logWarnings = << groupArg >> /\ loggedInvalidGroupNames = { groupArg })

\* A key ending with its third underscore was validated and accepted.
C11_Witness ==
    /\ groupArg = "remote_00_s+_"
    /\ TagOf(groupArg) = ""
    /\ validResults = { TRUE }
    /\ lastOp = "validatedGroup"

\* The name a key must carry to belong to the current remote, with the word
\* its key starts with; << >> when neither a remote authority nor a virtual
\* workspace is set.
CurrentRemote ==
    IF remoteAuthority # ""
    THEN << [word |-> "remote",
             name |-> CHOOSE n \in { SubSeq(remoteAuthority, 1, k) : k \in 0..Len(remoteAuthority) } :
                          /\ ~OneOf("+", n)
                          /\ (n = remoteAuthority
                              \/ SubSeq(remoteAuthority, Len(n) + 1, Len(n) + 1) = "+")] >>
    ELSE IF virtualWorkspaceLocation # << >>
    THEN << [word |-> "virtualfs", name |-> virtualWorkspaceLocation[1].scheme] >>
    ELSE << >>

\* The key has the form <word>_NN_<name>_... of the current remote.
KeyOfCurrentRemote(key) ==
    /\ CurrentRemote # << >>
    /\ \E digits \in { SubSeq(key, Len(CurrentRemote[1].word) + 2, Len(CurrentRemote[1].word) + 3) } :
           /\ IsTwoDigits(digits)
           /\ IsPrefix(CurrentRemote[1].word \o "_" \o digits \o "_" \o CurrentRemote[1].name \o "_",
                       key)

\* Position of a character in the order a locale-aware comparison gives the
\* characters of keys: punctuation, digits, letters.
CharRank(c) ==
    CHOOSE i \in 1..40 : SubSeq("_-.+0123456789abcdefghijklmnopqrstuvwxyz", i, i) = c

\* Key a does not come after key b in lexicographic order.
KeyNotAfter(a, b) ==
    \/ IsPrefix(a, b)
    \/ \E i \in 1..Len(a) :
           /\ i <= Len(b)
           /\ SubSeq(a, 1, i - 1) = SubSeq(b, 1, i - 1)
           /\ CharRank(SubSeq(a, i, i)) < CharRank(SubSeq(b, i, i))


\* The keys of a sequence of groups.
KeysOf(groups) == [i \in 1..Len(groups) |-> groups[i].key]

RECURSIVE IdsInOrder(_)
\* The ids of the menu item actions of a sequence of groups, in order.
IdsInOrder(groups) ==
    IF groups = << >> THEN << >>
    ELSE [i \in 1..Len(SelectSeq(Head(groups).actions, LAMBDA a : a.isMenuItem)) |->
             SelectSeq(Head(groups).actions, LAMBDA a : a.isMenuItem)[i].id]
         \o IdsInOrder(Tail(groups))

\* The ids of the selectable entries of the quick pick, in order.
PresentedItemIds ==
    [i \in 1..Len(SelectSeq(quickPick[1], LAMBDA e : e.type = "item")) |->
        SelectSeq(quickPick[1], LAMBDA e : e.type = "item")[i].id]

\* The quick pick's items have just been built.
ItemsJustBuilt == lastOp \in { "showRemoteMenu", "itemUpdater" } /\ quickPick # << >>

\* C12: the groups are processed (their actions presented) in an order that is
\* a rearrangement of the aggregator's; with a current-remote matcher every
\* matching group precedes every other group and the keys are in
\* non-decreasing order among the matching and among the other groups;
\* without a matcher the order is the aggregator's.
C12_CurrentRemoteGroupsFirst ==
    ItemsJustBuilt =>
        /\ Range(remoteMenuActionsGroups[1]) = Range(DocumentedAggregate)
        /\ Len(remoteMenuActionsGroups[1]) = Len(DocumentedAggregate)
        /\ IsPrefix(IdsInOrder(remoteMenuActionsGroups[1]), PresentedItemIds)
        /\ CurrentRemote = << >> => remoteMenuActionsGroups[1] = DocumentedAggregate
        /\ CurrentRemote # << >> =>
               \A i, j \in 1..Len(remoteMenuActionsGroups[1]) :
                   i < j =>
                       /\ KeyOfCurrentRemote(remoteMenuActionsGroups[1][j].key)
                              => KeyOfCurrentRemote(remoteMenuActionsGroups[1][i].key)
                       /\ (KeyOfCurrentRemote(remoteMenuActionsGroups[1][i].key)
                               = KeyOfCurrentRemote(remoteMenuActionsGroups[1][j].key))
                              => KeyNotAfter(remoteMenuActionsGroups[1][i].key,
                                             remoteMenuActionsGroups[1][j].key)

\* The documented example: with authority ssh+myhost the aggregator's
\* remote_01_ssh_a, virtualfs_00_git_b, remote_00_ssh_c were processed as
\* remote_00_ssh_c, remote_01_ssh_a, virtualfs_00_git_b.
C12_Witness ==
    /\ ItemsJustBuilt
    /\ remoteAuthority = "ssh+myhost"
    /\ KeysOf(DocumentedAggregate) = << "remote_01_ssh_a", "virtualfs_00_git_b", "remote_00_ssh_c" >>
    /\ KeysOf(remoteMenuActionsGroups[1])
           = << "remote_00_ssh_c", "remote_01_ssh_a", "virtualfs_00_git_b" >>
    /\ SubSeq(PresentedItemIds, 1, 3) = << "ssh.c", "ssh.a", "git.b" >>

\* The contributed part of the quick pick's list: the entries before the plain
\* separator that precedes the first fixed entry (close or connect).
ContributedPart ==
    SubSeq(quickPick[1], 1,
           (CHOOSE k \in 1..Len(quickPick[1]) :
                /\ quickPick[1][k].id \in { "workbench.action.remote.close",
                                           "workbench.action.remote.connect" }
                /\ \A j \in 1..(k - 1) :
                       quickPick[1][j].id \notin { "workbench.action.remote.close",
                                                   "workbench.action.remote.connect" }) - 2)

\* The label of the last separator before position k of a list ("" when none:
\* no category).
LastCategoryBefore(items, k) ==
    IF \E j \in 1..(k - 1) : items[j].type = "separator"
    THEN items[CHOOSE j \in 1..(k - 1) :
                   /\ items[j].type = "separator"
                   /\ \A h \in (j + 1)..(k - 1) : items[h].type # "separator"].label
    ELSE ""

\* The first menu item actions of the groups processed, as [id, category].
FirstActions ==
    { [id |-> SelectSeq(remoteMenuActionsGroups[1][i].actions, LAMBDA a : a.isMenuItem)[1].id,
       category |-> SelectSeq(remoteMenuActionsGroups[1][i].actions,
                              LAMBDA a : a.isMenuItem)[1].category] :
      i \in { h \in 1..Len(remoteMenuActionsGroups[1]) :
                  \E n \in 1..Len(remoteMenuActionsGroups[1][h].actions) :
                      remoteMenuActionsGroups[1][h].actions[n].isMenuItem } }

\* C13: in the contributed part a separator stands only directly before a
\* group's first action and carries that action's category; it stands there
\* exactly when that category differs from the label of the separator emitted
\* last (no category at first); so successive separators differ in label.
C13_CategorySeparatorsCollapse ==
    ItemsJustBuilt =>
        /\ \A k \in 1..Len(ContributedPart) :
               ContributedPart[k].type = "separator" =>
                   /\ k < Len(ContributedPart)
                   /\ \E first \in FirstActions :
                          /\ ContributedPart[k + 1] = [type |-> "item", id |-> first.id,
                                                       label |-> first.id]
                          /\ ContributedPart[k].label = first.category
                   /\ ContributedPart[k].label # LastCategoryBefore(ContributedPart, k)
        /\ \A k \in 1..Len(ContributedPart), first \in FirstActions :
               (ContributedPart[k].type = "item" /\ ContributedPart[k].id = first.id) =>
                   LastCategoryBefore(ContributedPart, k + 1) = first.category
        /\ [i \in 1..Len(SelectSeq(ContributedPart, LAMBDA e : e.type = "item")) |->
               SelectSeq(ContributedPart, LAMBDA e : e.type = "item")[i].id]
               = IdsInOrder(remoteMenuActionsGroups[1])

\* Two consecutive groups with actions of category Docker only: one Docker
\* separator, then the actions of both.
C13_Witness ==
    /\ ItemsJustBuilt
    /\ KeysOf(remoteMenuActionsGroups[1]) = << "remote_00_ssh_c", "remote_01_ssh_a" >>
    /\ ContributedPart = << [type |-> "separator", id |-> "", label |-> "Docker"],
                            [type |-> "item", id |-> "ssh.c", label |-> "ssh.c"],
                            [type |-> "item", id |-> "ssh.a", label |-> "ssh.a"] >>

\* An entry of a list as its type and id.
Shape(items) == [i \in 1..Len(items) |-> [type |-> items[i].type, id |-> items[i].id]]

\* What follows the contributed part of the quick pick's list.
AfterContributed == SubSeq(quickPick[1], Len(ContributedPart) + 1, Len(quickPick[1]))

\* A selectable entry and a separator, as type and id.
Entry(id) == [type |-> "item", id |-> id]
Rule == [type |-> "separator", id |-> ""]

\* The fixed block as documented, for the configuration and the connection
\* state of the moment.
DocumentedFixedBlock ==
    (IF SHOW_CLOSE_REMOTE_COMMAND_ID /\ (remoteAuthority # "" \/ virtualWorkspaceLocation # << >>)
     THEN << Entry("workbench.action.remote.close") >> ELSE << >>)
    \o (IF SHOW_CLOSE_REMOTE_COMMAND_ID /\ connectionState = "disconnected"
        THEN << Entry("workbench.action.reloadWindow") >> ELSE << >>)
    \o << Entry("workbench.action.remote.connect"),
          Rule,
          Entry("remote.logRemoteAuthority"),
          Entry("remote.logVirtualWorkspaceLocation"),
          Entry("remote.logExtensionGalleryService") >>
    \o (IF remoteAuthority = "" /\ virtualWorkspaceLocation = << >> /\ extensionGalleryEnabled
        THEN << Entry("workbench.action.remote.extensions") >> ELSE << >>)

\* C14: what follows the contributed part is the plain separator and then the
\* fixed block exactly as documented, in that order.
C14_FixedBlockAsDocumented ==
    ItemsJustBuilt =>
        /\ AfterContributed[1] = [type |-> "separator", id |-> "", label |-> ""]
        /\ Shape(Tail(AfterContributed)) = DocumentedFixedBlock

\* The list was built while disconnected: close, reload, connect, the
\* separator and the three diagnostic entries, no install entry.
C14_Witness ==
    /\ ItemsJustBuilt
    /\ connectionState = "disconnected"
    /\ Len(AfterContributed) = 8
    /\ AfterContributed[3].id = "workbench.action.reloadWindow"
    /\ AfterContributed[8].id = "remote.logExtensionGalleryService"

\* C15: the list built does not end with a separator, every separator of it
\* has a selectable entry somewhere after it, and the plain separator pushed
\* after the contributed part is still there, with entries after it: it is
\* never popped.
C15_NoDanglingSeparator ==
    ItemsJustBuilt =>
        /\ quickPick[1][Len(quickPick[1])].type = "item"
        /\ \A k \in 1..Len(quickPick[1]) :
               quickPick[1][k].type = "separator" =>
                   \E j \in (k + 1)..Len(quickPick[1]) : quickPick[1][j].type = "item"
        /\ Len(quickPick[1]) >= Len(ContributedPart) + 6
        /\ quickPick[1][Len(ContributedPart) + 1].type = "separator"
        /\ quickPick[1][Len(ContributedPart) + 2].type = "item"
        /\ Cardinality({ k \in 1..Len(quickPick[1]) : quickPick[1][k].type = "item" })
               = Len(IdsInOrder(remoteMenuActionsGroups[1])) + Len(DocumentedFixedBlock) - 1

\* Nothing was contributed: the list starts with the plain separator, which
\* the fixed entries follow.
C15_Witness ==
    /\ ItemsJustBuilt
    /\ remoteMenuActionsGroups = << << >> >>
    /\ quickPick[1][1] = [type |-> "separator", id |-> "", label |-> ""]
    /\ quickPick[1][2].id = "workbench.action.remote.connect"
    /\ ~extensionGalleryEnabled
    /\ Len(quickPick[1]) = 6

\* text cut to the maximum display length of 40 characters.
CutToDisplayLength(text) ==
    IF Len(text) <= 40 THEN text ELSE SubSeq(text, 1, 40) \o "..."

\* text ends with tail.
EndsWith(text, tail) ==
    Len(tail) <= Len(text) /\ SubSeq(text, Len(text) - Len(tail) + 1, Len(text)) = tail

\* C16 as stated: with a remote authority and the connection state
\* 'disconnected', the indicator shows the "Disconnected from <host>" message,
\* the host label cut to the maximum display length.
C16_DisconnectedTextShown ==
    (remoteAuthority # "" /\ connectionState = "disconnected") =>
        /\ remoteStatusEntry # << >>
        /\ EndsWith(remoteStatusEntry[1].text,
                    "Disconnected from " \o CutToDisplayLength(remoteAuthority))

\* C17: the indicator supplied from outside is shown in every state: its
\* tooltip and command, and as text its label cut to the maximum display
\* length with a remote authority, the icon alone without one, whatever the
\* connection state, the virtual workspace and the aggregated menu.
C17_OverrideShownFirst ==
    windowIndicator # << >> =>
        remoteStatusEntry =
            << [text |-> IF remoteAuthority # ""
                         THEN CutToDisplayLength(windowIndicator[1].label)
                         ELSE "$(remote)",
                tooltip |-> windowIndicator[1].tooltip,
                command |-> << windowIndicator[1].command >>,
                showProgress |-> FALSE] >>

\* The indicator was evaluated again on a change to 'reconnecting', with a
\* menu aggregated: the text is the label supplied from outside.
C17_Witness ==
    /\ lastOp = "onDidStateChange"
    /\ renders = 1
    /\ connectionState = "reconnecting"
    /\ remoteMenuActionsGroups # << >>
    /\ remoteStatusEntry[1].text = "$(remote) k0s: boring_wozniak"
    /\ remoteStatusEntry[1].command = << "workbench.action.remote.showMenu" >>

\* C18: the delivery of an event whose target differs from the connection
\* state sets the state, publishes its projection once and evaluates the
\* indicator once; the delivery of an event whose target is the connection
\* state changes neither the state nor the published value nor the indicator
\* and publishes and evaluates nothing.
C18_NoOpGuard ==
    [][lastOp' \in { "onDidStateChange", "resolveAuthority" } =>
           IF DocumentedTarget(lastEvent') # connectionState
           THEN /\ connectionState' = DocumentedTarget(lastEvent')
                /\ connectionStateContextKey' = CoarseProjection(connectionState')
                /\ publishes' = 1
                /\ renders' = 1
           ELSE /\ connectionState' = connectionState
                /\ connectionStateContextKey' = connectionStateContextKey
                /\ remoteStatusEntry' = remoteStatusEntry
                /\ publishes' = 0
                /\ renders' = 0]_vars

\* The resolution succeeded after ConnectionGain had set 'connected': nothing
\* was published and nothing evaluated.
C18_Witness ==
    /\ lastOp = "resolveAuthority"
    /\ lastEvent = "ResolveSuccess"
    /\ settledAfterGain
    /\ connectionState = "connected"
    /\ publishes = 0
    /\ renders = 0

\* C19: the connection state is defined exactly when a remote authority is
\* configured; without one the published context value is '', no connection
\* event is handled and no resolution is issued, in every reachable state.
C19_StateDefinedIffAuthority ==
    /\ (connectionState # "undefined") <=> (remoteAuthority # "")
    /\ remoteAuthority = "" =>
           /\ connectionStateContextKey = ""
           /\ lastEvent = "none"
           /\ resolveCalls = 0
           /\ extensionsPc # "resolving"

\* A window without a remote authority after the extensions were registered,
\* a menu changed and was rebuilt, and the workspace changed to a virtual one.
C19_Witness ==
    /\ remoteAuthority = ""
    /\ extensionsPc = "done"
    /\ remoteMenuActionsGroups # << >>
    /\ virtualWorkspaceLocation # << >>
    /\ lastOp = "onDidChangeWorkbenchState"
    /\ connectionState = "undefined"

\* C20: a sequence that an unforced call of getRemoteMenuActions returns from
\* the cache was built from what the menus held after the most recent change
\* notification, that is from what they hold now: it holds exactly the
\* current menu's groups with a valid key and the legacy menu's groups. This
\* is to hold also when a notification was delivered during the rebuild that
\* filled the cache.
C20_CachedSequenceIsCurrent ==
    (lastGet # << >> /\ ~lastGet[1].doNotUseCache /\ lastGet[1].before # << >>) =>
        /\ lastGet[1].returned = lastGet[1].before[1]
        /\ Range(lastGet[1].returned)
               = Range(CurrentGroups(TRUE)) \cup Range(legacyIndicatorMenu)
        /\ Len(lastGet[1].returned) = Len(CurrentGroups(TRUE)) + Len(legacyIndicatorMenu)

\* The ids of the selectable entries of the contributed part of the quick pick.
ContributedIds ==
    { ContributedPart[i].id : i \in { k \in 1..Len(ContributedPart) :
                                          ContributedPart[k].type = "item" } }

\* C21: the items are computed with a forced refresh on opening the menu and
\* on every change notification of either menu delivered while the quick pick
\* is open, so that the open quick pick presents the actions of what the menus
\* hold as of the latest notification; once it is hidden a notification
\* computes no items, and only opening the menu shows a list again.
C21_OpenListFollowsNotifications ==
    /\ [](ItemsJustBuilt => srcReads = 1)
    /\ [](lastOp = "onDidChange" =>
              ((\E i \in 1..Len(pending) : pending[i] = "itemUpdater") <=> quickPick # << >>))
    /\ []((quickPick # << >> /\ pending = << >>) =>
              ContributedIds = ActionIds(CurrentGroups(TRUE)) \cup ActionIds(legacyIndicatorMenu))
    /\ [](quickPick = << >> => lastOp # "itemUpdater")
    /\ [][quickPick' # quickPick =>
              IF quickPick = << >> THEN lastOp' = "showRemoteMenu"
              ELSE lastOp' \in { "showRemoteMenu", "itemUpdater", "onDidAccept", "onDidHide" }]_vars

\* The legacy menu changed while the quick pick was open and the items computed
\* again present its action, the cache having been set before the change.
C21_Witness ==
    /\ lastOp = "itemUpdater"
    /\ pending = << >>
    /\ srcReads = 1
    /\ legacyIndicatorMenu # << >>
    /\ "ssh.c" \in ContributedIds
    /\ remoteIndicatorMenu # << >>

\* C22: with a remote authority the workspace is never read and the virtual
\* workspace location stays absent; without one the location is that of the
\* workspace read at construction or by the latest workspace-state change,
\* and no other handler reads the workspace or changes the location.
C22_VirtualLocationOnlyWithoutAuthority ==
    /\ [](remoteAuthority # "" =>
              /\ workspaceRead = << >>
              /\ virtualWorkspaceLocation = << >>
              /\ lastOp # "onDidChangeWorkbenchState")
    /\ [](remoteAuthority = "" =>
              /\ workspaceRead # << >>
              /\ virtualWorkspaceLocation = getVirtualWorkspaceLocation(workspaceRead[1]))
    /\ [][(workspaceRead' # workspaceRead \/ virtualWorkspaceLocation' # virtualWorkspaceLocation)
              => lastOp' = "onDidChangeWorkbenchState"]_vars

\* Without a remote authority the workspace became a virtual one after the
\* extensions were registered, and the location is the new workspace's.
C22_Witness ==
    /\ remoteAuthority = ""
    /\ lastOp = "onDidChangeWorkbenchState"
    /\ extensionsPc = "done"
    /\ workspaceRead = << << [scheme |-> "git", authority |-> "hub"] >> >>
    /\ virtualWorkspaceLocation = << [scheme |-> "git", authority |-> "hub"] >>

\* C23: with a remote authority, once the extensions are registered and the
\* resolution has settled the connection state is no longer 'initializing';
\* a state other than 'initializing' is never followed by 'initializing'; and
\* a rejected resolution ends the handler with the state 'disconnected'.
C23_LeavesInitializing ==
    /\ (remoteAuthority # "") ~> (connectionState # "initializing")
    /\ [][connectionState # "initializing" => connectionState' # "initializing"]_vars
    /\ []((lastOp = "resolveAuthority" /\ lastEvent = "ResolveFailure") =>
              (connectionState = "disconnected" /\ extensionsPc = "done"))

\* No connection event was delivered and the resolution was rejected: the
\* state went from 'initializing' to 'disconnected'.
C23_Witness ==
    /\ remoteAuthority # ""
    /\ lastOp = "resolveAuthority"
    /\ lastEvent = "ResolveFailure"
    /\ connectionState = "disconnected"
    /\ publishes = 1
    /\ resolveCalls = 1

=============================================================================
